---- MODULE Spec2Model ----
(***************************************************************************)
(* Payments engine (src/src/engine.rs, account.rs, transaction.rs,         *)
(* decimal.rs) as a state machine.  One record of the input stream is      *)
(* ingested per step; the snapshot is written by WriteOutput.              *)
(*                                                                         *)
(* Money (Decimal4) is an integer number of ten-thousandths: the value     *)
(* 1.5000 is 15000.  Text (a CSV field) is a sequence of one-character     *)
(* strings.                                                                *)
(***************************************************************************)
EXTENDS Integers, Sequences, FiniteSets, TLC

\* ------------------------------------------------------------------ bounds

\* Number of input rows the stream holds (process_csv reads until EOF).
MaxRows == 5

\* The client ids (u16) and tx ids (u32) the rows of the stream name.
Clients == {1, 2}
TxIds == {1, 2}

\* -------------------------------------------------------------------- text

Str_deposit == <<"d","e","p","o","s","i","t">>
Str_withdrawal == <<"w","i","t","h","d","r","a","w","a","l">>
Str_dispute == <<"d","i","s","p","u","t","e">>
Str_resolve == <<"r","e","s","o","l","v","e">>
Str_chargeback == <<"c","h","a","r","g","e","b","a","c","k">>

UpperChars == <<"A","B","C","D","E","F","G","H","I","J","K","L","M",
                "N","O","P","Q","R","S","T","U","V","W","X","Y","Z">>
LowerChars == <<"a","b","c","d","e","f","g","h","i","j","k","l","m",
                "n","o","p","q","r","s","t","u","v","w","x","y","z">>

\* str::to_lowercase on one character
LowerChar(ch) ==
    IF \E i \in 1..Len(UpperChars) : UpperChars[i] = ch
    THEN LowerChars[CHOOSE i \in 1..Len(UpperChars) : UpperChars[i] = ch]
    ELSE ch

to_lowercase(s) == [i \in 1..Len(s) |-> LowerChar(s[i])]

\* str::trim: drop leading and trailing whitespace
RECURSIVE trim_start(_)
trim_start(s) ==
    IF Len(s) > 0 /\ s[1] = " " THEN trim_start(Tail(s)) ELSE s

RECURSIVE trim_end(_)
trim_end(s) ==
    IF Len(s) > 0 /\ s[Len(s)] = " " THEN trim_end(SubSeq(s, 1, Len(s) - 1)) ELSE s

trim(s) == trim_end(trim_start(s))

\* ----------------------------------------------------------------- decimal

\* Decimal4::SCALE
SCALE == 4

DigitChars == <<"0","1","2","3","4","5","6","7","8","9">>

IsDigit(ch) == \E i \in 1..10 : DigitChars[i] = ch

DigitVal(ch) == (CHOOSE i \in 1..10 : DigitChars[i] = ch) - 1

RECURSIVE Pow10(_)
Pow10(n) == IF n = 0 THEN 1 ELSE 10 * Pow10(n - 1)

RECURSIVE DigitsValue(_)
DigitsValue(s) ==
    IF Len(s) = 0 THEN 0
    ELSE 10 * DigitsValue(SubSeq(s, 1, Len(s) - 1)) + DigitVal(s[Len(s)])

\* The absent value of an Option / the Err of a Result.
None == [ok |-> FALSE]

\* rust_decimal Decimal::from_str on the texts of AmountTexts: an optional
\* sign, digits, at most one point; the result is a mantissa and a scale.
Decimal_from_str(s) ==
    LET neg  == Len(s) > 0 /\ s[1] = "-"
        body == IF Len(s) > 0 /\ s[1] \in {"-", "+"} THEN Tail(s) ELSE s
        dots == {i \in 1..Len(body) : body[i] = "."}
        dot  == IF dots = {} THEN Len(body) + 1 ELSE CHOOSE i \in dots : TRUE
        ip   == SubSeq(body, 1, dot - 1)
        fp   == SubSeq(body, dot + 1, Len(body))
        ds   == ip \o fp
    IN  IF Cardinality(dots) > 1 \/ Len(ds) = 0
           \/ \E i \in 1..Len(ds) : ~IsDigit(ds[i])
        THEN None
        ELSE [ok |-> TRUE,
              mantissa |-> (IF neg THEN -1 ELSE 1) * DigitsValue(ds),
              scale |-> Len(fp)]

\* Decimal4::new: rescale to 4 places.  Scaling up pads with zeros; scaling
\* down drops digits and rounds on the first dropped digit, away from zero.
Decimal4_new(d) ==
    IF d.scale <= SCALE
    THEN d.mantissa * Pow10(SCALE - d.scale)
    ELSE LET p    == Pow10(d.scale - SCALE)
             mag  == IF d.mantissa < 0 THEN -d.mantissa ELSE d.mantissa
             q    == mag \div p
             r    == (mag % p) \div Pow10(d.scale - SCALE - 1)
             rq   == IF r >= 5 THEN q + 1 ELSE q
         IN  IF d.mantissa < 0 THEN -rq ELSE rq

\* impl FromStr for Decimal4
Decimal4_from_str(s) ==
    LET d == Decimal_from_str(trim(s))
    IN  IF d.ok THEN [ok |-> TRUE, value |-> Decimal4_new(d)] ELSE None

\* Decimal4::ZERO
ZERO == 0

\* impl AddAssign / SubAssign for Decimal4 (exact at scale 4)
add_assign(a, b) == a + b

sub_assign(a, b) == a - b

\* impl Add for Decimal4
add(a, b) == a + b

\* impl Sub for Decimal4
sub(a, b) == a - b

RECURSIVE DigitsOf(_)
DigitsOf(n) ==
    IF n < 10 THEN <<DigitChars[n + 1]>>
    ELSE DigitsOf(n \div 10) \o <<DigitChars[(n % 10) + 1]>>

\* Mutant of to_string: the fraction is written without its leading zeros.
to_string_unpadded(m) ==
    LET mag  == IF m < 0 THEN -m ELSE m
        frac == mag % Pow10(SCALE)
    IN  (IF m < 0 THEN <<"-">> ELSE <<>>)
        \o DigitsOf(mag \div Pow10(SCALE))
        \o <<".">>
        \o DigitsOf(frac)

\* impl Display for Decimal4: "{:.4}"
to_string(m) ==
    LET mag  == IF m < 0 THEN -m ELSE m
        frac == mag % Pow10(SCALE)
    IN  (IF m < 0 THEN <<"-">> ELSE <<>>)
        \o DigitsOf(mag \div Pow10(SCALE))
        \o <<".">>
        \o [i \in 1..SCALE |-> DigitChars[((frac \div Pow10(SCALE - i)) % 10) + 1]]

\* ------------------------------------------------------------- transaction

\* Mutant of parse_amount: an empty amount is read as zero.
parse_amount_empty_is_zero(record) ==
    IF ~record.amount.ok THEN None
    ELSE LET trimmed == trim(record.amount.text)
         IN  IF Len(trimmed) = 0 THEN [ok |-> TRUE, value |-> ZERO]
             ELSE Decimal4_from_str(trimmed)

\* TransactionRecord::parse_amount: the amount field as a Decimal4, or None
\* when the field is absent, empty after trimming, or not a decimal.
parse_amount(record) ==
    IF ~record.amount.ok THEN None
    ELSE LET trimmed == trim(record.amount.text)
         IN  IF Len(trimmed) = 0 THEN None ELSE Decimal4_from_str(trimmed)

\* Mutant of parse: a deposit or withdrawal without a usable amount is given
\* the default amount, zero.
parse_default_amount(record) ==
    LET tx_type == to_lowercase(trim(record.tx_type))
        amount  == parse_amount(record)
        value   == IF amount.ok THEN amount.value ELSE ZERO
    IN  CASE tx_type = Str_deposit ->
               [ok |-> TRUE, tx_id |-> record.tx, client |-> record.client,
                kind |-> "deposit", amount |-> value]
          [] tx_type = Str_withdrawal ->
               [ok |-> TRUE, tx_id |-> record.tx, client |-> record.client,
                kind |-> "withdrawal", amount |-> value]
          [] tx_type = Str_dispute ->
               [ok |-> TRUE, tx_id |-> record.tx, client |-> record.client,
                kind |-> "dispute", amount |-> ZERO]
          [] tx_type = Str_resolve ->
               [ok |-> TRUE, tx_id |-> record.tx, client |-> record.client,
                kind |-> "resolve", amount |-> ZERO]
          [] tx_type = Str_chargeback ->
               [ok |-> TRUE, tx_id |-> record.tx, client |-> record.client,
                kind |-> "chargeback", amount |-> ZERO]
          [] OTHER -> None

\* TransactionRecord::parse: the typed transaction, or None for an unknown
\* type or a deposit/withdrawal without a usable amount.
parse(record) ==
    LET tx_type == to_lowercase(trim(record.tx_type))
        amount  == parse_amount(record)
    IN  CASE tx_type = Str_deposit ->
               IF amount.ok
               THEN [ok |-> TRUE, tx_id |-> record.tx, client |-> record.client,
                     kind |-> "deposit", amount |-> amount.value]
               ELSE None
          [] tx_type = Str_withdrawal ->
               IF amount.ok
               THEN [ok |-> TRUE, tx_id |-> record.tx, client |-> record.client,
                     kind |-> "withdrawal", amount |-> amount.value]
               ELSE None
          [] tx_type = Str_dispute ->
               [ok |-> TRUE, tx_id |-> record.tx, client |-> record.client,
                kind |-> "dispute", amount |-> ZERO]
          [] tx_type = Str_resolve ->
               [ok |-> TRUE, tx_id |-> record.tx, client |-> record.client,
                kind |-> "resolve", amount |-> ZERO]
          [] tx_type = Str_chargeback ->
               [ok |-> TRUE, tx_id |-> record.tx, client |-> record.client,
                kind |-> "chargeback", amount |-> ZERO]
          [] OTHER -> None

\* Mutant of StoredTx::from_deposit: the entry is filed under the other
\* client.
from_deposit_other_client(tx_id, client, amount) ==
    [tx_id |-> tx_id, client |-> 3 - client, amount |-> amount,
     under_dispute |-> FALSE]

\* StoredTransaction::from_deposit
from_deposit(tx_id, client, amount) ==
    [tx_id |-> tx_id, client |-> client, amount |-> amount, under_dispute |-> FALSE]

\* ----------------------------------------------------------------- account
\* Each mutator yields the success flag it returns and the account it leaves.

\* ClientAccount::new
ClientAccount_new(client_id) ==
    [client |-> client_id, available |-> ZERO, held |-> ZERO, total |-> ZERO,
     locked |-> FALSE]

\* ClientAccount::is_locked
is_locked(account) == account.locked

\* Mutant of deposit: no test of the lock.
deposit_ignores_lock(account, amount) ==
    [ok |-> TRUE,
     account |-> [account EXCEPT !.available = add_assign(@, amount),
                                 !.total = add_assign(@, amount)]]

\* ClientAccount::deposit
deposit(account, amount) ==
    IF account.locked THEN [ok |-> FALSE, account |-> account]
    ELSE [ok |-> TRUE,
          account |-> [account EXCEPT !.available = add_assign(@, amount),
                                      !.total = add_assign(@, amount)]]

\* Mutant of withdraw: the total is not reduced.
withdraw_forgets_total(account, amount) ==
    IF account.locked THEN [ok |-> FALSE, account |-> account]
    ELSE IF account.available < amount THEN [ok |-> FALSE, account |-> account]
    ELSE [ok |-> TRUE,
          account |-> [account EXCEPT !.available = sub_assign(@, amount)]]

\* Mutant of withdraw: the amount is compared with total, so held funds count.
withdraw_counts_held(account, amount) ==
    IF account.locked THEN [ok |-> FALSE, account |-> account]
    ELSE IF account.total < amount THEN [ok |-> FALSE, account |-> account]
    ELSE [ok |-> TRUE,
          account |-> [account EXCEPT !.available = sub_assign(@, amount),
                                      !.total = sub_assign(@, amount)]]

\* Mutant of withdraw: the amount must be less than available.
withdraw_strict(account, amount) ==
    IF account.locked THEN [ok |-> FALSE, account |-> account]
    ELSE IF account.available <= amount THEN [ok |-> FALSE, account |-> account]
    ELSE [ok |-> TRUE,
          account |-> [account EXCEPT !.available = sub_assign(@, amount),
                                      !.total = sub_assign(@, amount)]]

\* ClientAccount::withdraw
withdraw(account, amount) ==
    IF account.locked THEN [ok |-> FALSE, account |-> account]
    ELSE IF account.available < amount THEN [ok |-> FALSE, account |-> account]
    ELSE [ok |-> TRUE,
          account |-> [account EXCEPT !.available = sub_assign(@, amount),
                                      !.total = sub_assign(@, amount)]]

\* Mutant of hold: the account is frozen when the dispute is opened.
hold_locks(account, amount) ==
    IF account.locked THEN [ok |-> FALSE, account |-> account]
    ELSE [ok |-> TRUE,
          account |-> [account EXCEPT !.available = sub_assign(@, amount),
                                      !.held = add_assign(@, amount),
                                      !.locked = TRUE]]

\* Mutant of hold: refuses to hold more than is available.
hold_checked(account, amount) ==
    IF account.locked THEN [ok |-> FALSE, account |-> account]
    ELSE IF account.available < amount THEN [ok |-> FALSE, account |-> account]
    ELSE [ok |-> TRUE,
          account |-> [account EXCEPT !.available = sub_assign(@, amount),
                                      !.held = add_assign(@, amount)]]

\* ClientAccount::hold
hold(account, amount) ==
    IF account.locked THEN [ok |-> FALSE, account |-> account]
    ELSE [ok |-> TRUE,
          account |-> [account EXCEPT !.available = sub_assign(@, amount),
                                      !.held = add_assign(@, amount)]]

\* Mutant of release: the released amount is not returned to available.
release_forgets_available(account, amount) ==
    IF account.locked THEN [ok |-> FALSE, account |-> account]
    ELSE [ok |-> TRUE,
          account |-> [account EXCEPT !.held = sub_assign(@, amount)]]

\* ClientAccount::release
release(account, amount) ==
    IF account.locked THEN [ok |-> FALSE, account |-> account]
    ELSE [ok |-> TRUE,
          account |-> [account EXCEPT !.held = sub_assign(@, amount),
                                      !.available = add_assign(@, amount)]]

\* Mutant of chargeback: everything held is removed, not only the amount of
\* the deposit charged back.
chargeback_clears_held(account, amount) ==
    IF account.locked THEN [ok |-> FALSE, account |-> account]
    ELSE [ok |-> TRUE,
          account |-> [account EXCEPT !.held = ZERO,
                                      !.total = sub_assign(@, account.held),
                                      !.locked = TRUE]]

\* Mutant of chargeback: the account is not locked.
chargeback_no_lock(account, amount) ==
    IF account.locked THEN [ok |-> FALSE, account |-> account]
    ELSE [ok |-> TRUE,
          account |-> [account EXCEPT !.held = sub_assign(@, amount),
                                      !.total = sub_assign(@, amount)]]

\* Mutant of chargeback: the amount leaves held but stays in total.
chargeback_keeps_total(account, amount) ==
    IF account.locked THEN [ok |-> FALSE, account |-> account]
    ELSE [ok |-> TRUE,
          account |-> [account EXCEPT !.held = sub_assign(@, amount),
                                      !.locked = TRUE]]

\* ClientAccount::chargeback
chargeback(account, amount) ==
    IF account.locked THEN [ok |-> FALSE, account |-> account]
    ELSE [ok |-> TRUE,
          account |-> [account EXCEPT !.held = sub_assign(@, amount),
                                      !.total = sub_assign(@, amount),
                                      !.locked = TRUE]]

\* ClientAccount::check_invariant
check_invariant(account) == account.total = add(account.available, account.held)

\* ------------------------------------------------------------------ engine
\* The engine is the pair of maps `accounts` (client id -> account) and
\* `transactions` (tx id -> stored deposit).  Every operation below yields
\* the two maps it leaves and `event`, the branch it took (the log line the
\* source writes there; "panic" where an expect() fails).

Engine(accts, txs, event) ==
    [accounts |-> accts, transactions |-> txs, event |-> event]

\* HashMap::insert / the map with key k set to v
Insert(map, k, v) ==
    [x \in DOMAIN map \cup {k} |-> IF x = k THEN v ELSE map[x]]

\* Mutant of ensure_account_exists: insert instead of entry().or_insert_with,
\* so an existing account is replaced by a fresh one.
ensure_account_exists_overwrite(accts, client) ==
    Insert(accts, client, ClientAccount_new(client))

\* PaymentsEngine::ensure_account_exists
ensure_account_exists(accts, client) ==
    IF client \in DOMAIN accts THEN accts
    ELSE Insert(accts, client, ClientAccount_new(client))

\* PaymentsEngine::is_account_locked
is_account_locked(accts, client) ==
    IF client \in DOMAIN accts THEN is_locked(accts[client]) ELSE FALSE

\* Mutant of process_deposit: the applied deposit is not stored in the index.
process_deposit_not_stored(accts, txs, tx_id, client, amount) ==
    IF tx_id \in DOMAIN txs THEN Engine(accts, txs, "duplicate")
    ELSE IF client \notin DOMAIN accts THEN Engine(accts, txs, "panic")
    ELSE LET r == deposit(accts[client], amount)
         IN  Engine(Insert(accts, client, r.account), txs,
                    IF r.ok THEN "deposited" ELSE "deposit_refused")

\* Mutant of process_deposit: no duplicate tx id check.
process_deposit_unchecked(accts, txs, tx_id, client, amount) ==
    IF client \notin DOMAIN accts THEN Engine(accts, txs, "panic")
    ELSE LET r == deposit(accts[client], amount)
         IN  IF r.ok
             THEN Engine(Insert(accts, client, r.account),
                         Insert(txs, tx_id, from_deposit(tx_id, client, amount)),
                         "deposited")
             ELSE Engine(Insert(accts, client, r.account), txs, "deposit_refused")

\* PaymentsEngine::process_deposit
process_deposit(accts, txs, tx_id, client, amount) ==
    IF tx_id \in DOMAIN txs THEN Engine(accts, txs, "duplicate")
    ELSE IF client \notin DOMAIN accts THEN Engine(accts, txs, "panic")
    ELSE LET r == deposit(accts[client], amount)
         IN  IF r.ok
             THEN Engine(Insert(accts, client, r.account),
                         Insert(txs, tx_id, from_deposit(tx_id, client, amount)),
                         "deposited")
             ELSE Engine(Insert(accts, client, r.account), txs, "deposit_refused")

\* Mutant of process_withdrawal: no duplicate tx id check.
process_withdrawal_unchecked(accts, txs, tx_id, client, amount) ==
    IF client \notin DOMAIN accts THEN Engine(accts, txs, "panic")
    ELSE LET r == withdraw(accts[client], amount)
         IN  Engine(Insert(accts, client, r.account), txs,
                    IF r.ok THEN "withdrew" ELSE "withdrawal_failed")

\* Mutant of process_withdrawal: a successful withdrawal is stored in the
\* index like a deposit.
process_withdrawal_stored(accts, txs, tx_id, client, amount) ==
    IF tx_id \in DOMAIN txs THEN Engine(accts, txs, "duplicate")
    ELSE IF client \notin DOMAIN accts THEN Engine(accts, txs, "panic")
    ELSE LET r == withdraw(accts[client], amount)
         IN  IF r.ok
             THEN Engine(Insert(accts, client, r.account),
                         Insert(txs, tx_id, from_deposit(tx_id, client, amount)),
                         "withdrew")
             ELSE Engine(Insert(accts, client, r.account), txs, "withdrawal_failed")

\* Mutant of process_withdrawal: every withdrawal, applied or not, is stored
\* in the index.
process_withdrawal_indexed(accts, txs, tx_id, client, amount) ==
    IF tx_id \in DOMAIN txs THEN Engine(accts, txs, "duplicate")
    ELSE IF client \notin DOMAIN accts THEN Engine(accts, txs, "panic")
    ELSE LET r == withdraw(accts[client], amount)
         IN  Engine(Insert(accts, client, r.account),
                    Insert(txs, tx_id, from_deposit(tx_id, client, amount)),
                    IF r.ok THEN "withdrew" ELSE "withdrawal_failed")

\* PaymentsEngine::process_withdrawal
process_withdrawal(accts, txs, tx_id, client, amount) ==
    IF tx_id \in DOMAIN txs THEN Engine(accts, txs, "duplicate")
    ELSE IF client \notin DOMAIN accts THEN Engine(accts, txs, "panic")
    ELSE LET r == withdraw(accts[client], amount)
         IN  Engine(Insert(accts, client, r.account), txs,
                    IF r.ok THEN "withdrew" ELSE "withdrawal_failed")

\* Mutant of process_dispute: a deposit already under dispute is disputed
\* again.
process_dispute_again(accts, txs, tx_id, client) ==
    IF tx_id \notin DOMAIN txs THEN Engine(accts, txs, "unknown_tx")
    ELSE IF txs[tx_id].client # client THEN Engine(accts, txs, "client_mismatch")
    ELSE LET amount == txs[tx_id].amount
             txs2   == [txs EXCEPT ![tx_id].under_dispute = TRUE]
         IN  IF client \notin DOMAIN accts THEN Engine(accts, txs2, "panic")
             ELSE Engine(Insert(accts, client, hold(accts[client], amount).account),
                         txs2, "disputed")

\* PaymentsEngine::process_dispute
process_dispute(accts, txs, tx_id, client) ==
    IF tx_id \notin DOMAIN txs THEN Engine(accts, txs, "unknown_tx")
    ELSE IF txs[tx_id].client # client THEN Engine(accts, txs, "client_mismatch")
    ELSE IF txs[tx_id].under_dispute THEN Engine(accts, txs, "already_disputed")
    ELSE LET amount == txs[tx_id].amount
             txs2   == [txs EXCEPT ![tx_id].under_dispute = TRUE]
         IN  IF client \notin DOMAIN accts THEN Engine(accts, txs2, "panic")
             ELSE Engine(Insert(accts, client, hold(accts[client], amount).account),
                         txs2, "disputed")

\* Mutant of process_resolve: the owner of the stored deposit is not compared
\* with the client of the record.
process_resolve_any_client(accts, txs, tx_id, client) ==
    IF tx_id \notin DOMAIN txs THEN Engine(accts, txs, "unknown_tx")
    ELSE IF ~txs[tx_id].under_dispute THEN Engine(accts, txs, "not_disputed")
    ELSE LET amount == txs[tx_id].amount
             txs2   == [txs EXCEPT ![tx_id].under_dispute = FALSE]
         IN  IF client \notin DOMAIN accts THEN Engine(accts, txs2, "panic")
             ELSE Engine(Insert(accts, client, release(accts[client], amount).account),
                         txs2, "resolved")

\* Mutant of process_resolve: under_dispute stays set after the release.
process_resolve_keeps_flag(accts, txs, tx_id, client) ==
    IF tx_id \notin DOMAIN txs THEN Engine(accts, txs, "unknown_tx")
    ELSE IF txs[tx_id].client # client THEN Engine(accts, txs, "client_mismatch")
    ELSE IF ~txs[tx_id].under_dispute THEN Engine(accts, txs, "not_disputed")
    ELSE LET amount == txs[tx_id].amount
         IN  IF client \notin DOMAIN accts THEN Engine(accts, txs, "panic")
             ELSE Engine(Insert(accts, client, release(accts[client], amount).account),
                         txs, "resolved")

\* Mutant of process_resolve: a resolved deposit is removed from the index.
process_resolve_forgets_tx(accts, txs, tx_id, client) ==
    IF tx_id \notin DOMAIN txs THEN Engine(accts, txs, "unknown_tx")
    ELSE IF txs[tx_id].client # client THEN Engine(accts, txs, "client_mismatch")
    ELSE IF ~txs[tx_id].under_dispute THEN Engine(accts, txs, "not_disputed")
    ELSE LET amount == txs[tx_id].amount
             txs2   == [t \in DOMAIN txs \ {tx_id} |-> txs[t]]
         IN  IF client \notin DOMAIN accts THEN Engine(accts, txs2, "panic")
             ELSE Engine(Insert(accts, client, release(accts[client], amount).account),
                         txs2, "resolved")

\* PaymentsEngine::process_resolve
process_resolve(accts, txs, tx_id, client) ==
    IF tx_id \notin DOMAIN txs THEN Engine(accts, txs, "unknown_tx")
    ELSE IF txs[tx_id].client # client THEN Engine(accts, txs, "client_mismatch")
    ELSE IF ~txs[tx_id].under_dispute THEN Engine(accts, txs, "not_disputed")
    ELSE LET amount == txs[tx_id].amount
             txs2   == [txs EXCEPT ![tx_id].under_dispute = FALSE]
         IN  IF client \notin DOMAIN accts THEN Engine(accts, txs2, "panic")
             ELSE Engine(Insert(accts, client, release(accts[client], amount).account),
                         txs2, "resolved")

\* Mutant of process_chargeback: the deposit charged back is removed from the
\* index.
process_chargeback_removes_tx(accts, txs, tx_id, client) ==
    IF tx_id \notin DOMAIN txs THEN Engine(accts, txs, "unknown_tx")
    ELSE IF txs[tx_id].client # client THEN Engine(accts, txs, "client_mismatch")
    ELSE IF ~txs[tx_id].under_dispute THEN Engine(accts, txs, "not_disputed")
    ELSE LET amount == txs[tx_id].amount
             txs2   == [t \in DOMAIN txs \ {tx_id} |-> txs[t]]
         IN  IF client \notin DOMAIN accts THEN Engine(accts, txs2, "panic")
             ELSE Engine(Insert(accts, client,
                                chargeback(accts[client], amount).account),
                         txs2, "charged_back")

\* Mutant of process_chargeback: the deposit need not be under dispute.
process_chargeback_undisputed(accts, txs, tx_id, client) ==
    IF tx_id \notin DOMAIN txs THEN Engine(accts, txs, "unknown_tx")
    ELSE IF txs[tx_id].client # client THEN Engine(accts, txs, "client_mismatch")
    ELSE LET amount == txs[tx_id].amount
             txs2   == [txs EXCEPT ![tx_id].under_dispute = FALSE]
         IN  IF client \notin DOMAIN accts THEN Engine(accts, txs2, "panic")
             ELSE Engine(Insert(accts, client,
                                chargeback(accts[client], amount).account),
                         txs2, "charged_back")

\* Mutant of process_chargeback: under_dispute stays set after the chargeback.
process_chargeback_keeps_flag(accts, txs, tx_id, client) ==
    IF tx_id \notin DOMAIN txs THEN Engine(accts, txs, "unknown_tx")
    ELSE IF txs[tx_id].client # client THEN Engine(accts, txs, "client_mismatch")
    ELSE IF ~txs[tx_id].under_dispute THEN Engine(accts, txs, "not_disputed")
    ELSE LET amount == txs[tx_id].amount
         IN  IF client \notin DOMAIN accts THEN Engine(accts, txs, "panic")
             ELSE Engine(Insert(accts, client,
                                chargeback(accts[client], amount).account),
                         txs, "charged_back")

\* Mutant of process_chargeback: the owner of the stored deposit is not
\* compared with the client of the record; the owner is charged back.
process_chargeback_owner(accts, txs, tx_id, client) ==
    IF tx_id \notin DOMAIN txs THEN Engine(accts, txs, "unknown_tx")
    ELSE IF ~txs[tx_id].under_dispute THEN Engine(accts, txs, "not_disputed")
    ELSE LET amount == txs[tx_id].amount
             owner  == txs[tx_id].client
             txs2   == [txs EXCEPT ![tx_id].under_dispute = FALSE]
         IN  IF owner \notin DOMAIN accts THEN Engine(accts, txs2, "panic")
             ELSE Engine(Insert(accts, owner,
                                chargeback(accts[owner], amount).account),
                         txs2, "charged_back")

\* PaymentsEngine::process_chargeback
process_chargeback(accts, txs, tx_id, client) ==
    IF tx_id \notin DOMAIN txs THEN Engine(accts, txs, "unknown_tx")
    ELSE IF txs[tx_id].client # client THEN Engine(accts, txs, "client_mismatch")
    ELSE IF ~txs[tx_id].under_dispute THEN Engine(accts, txs, "not_disputed")
    ELSE LET amount == txs[tx_id].amount
             txs2   == [txs EXCEPT ![tx_id].under_dispute = FALSE]
         IN  IF client \notin DOMAIN accts THEN Engine(accts, txs2, "panic")
             ELSE Engine(Insert(accts, client,
                                chargeback(accts[client], amount).account),
                         txs2, "charged_back")

\* Mutant of the Deposit arm: the duplicate tx id is detected before the
\* account is created.
dispatch_deposit_checks_first(accts, txs, tx) ==
    IF tx.tx_id \in DOMAIN txs THEN Engine(accts, txs, "duplicate")
    ELSE LET accts2 == ensure_account_exists(accts, tx.client)
         IN  IF is_locked(accts2[tx.client]) THEN Engine(accts2, txs, "locked")
             ELSE process_deposit(accts2, txs, tx.tx_id, tx.client, tx.amount)

\* PaymentsEngine::process_transaction, TxKind::Deposit arm
dispatch_deposit(accts, txs, tx) ==
    LET accts2 == ensure_account_exists(accts, tx.client)
    IN  IF tx.client \notin DOMAIN accts2 THEN Engine(accts2, txs, "panic")
        ELSE IF is_locked(accts2[tx.client]) THEN Engine(accts2, txs, "locked")
        ELSE process_deposit(accts2, txs, tx.tx_id, tx.client, tx.amount)

\* Mutant of the Withdrawal arm: no account is created; a withdrawal for a
\* client without an account fails.
dispatch_withdrawal_no_create(accts, txs, tx) ==
    IF tx.client \notin DOMAIN accts THEN Engine(accts, txs, "withdrawal_failed")
    ELSE IF is_locked(accts[tx.client]) THEN Engine(accts, txs, "locked")
    ELSE process_withdrawal(accts, txs, tx.tx_id, tx.client, tx.amount)

\* PaymentsEngine::process_transaction, TxKind::Withdrawal arm
dispatch_withdrawal(accts, txs, tx) ==
    LET accts2 == ensure_account_exists(accts, tx.client)
    IN  IF tx.client \notin DOMAIN accts2 THEN Engine(accts2, txs, "panic")
        ELSE IF is_locked(accts2[tx.client]) THEN Engine(accts2, txs, "locked")
        ELSE process_withdrawal(accts2, txs, tx.tx_id, tx.client, tx.amount)

\* Mutant of the Dispute arm: the account is created first, as the Deposit
\* arm does.
dispatch_dispute_creates(accts, txs, tx) ==
    LET accts2 == ensure_account_exists(accts, tx.client)
    IN  IF is_locked(accts2[tx.client]) THEN Engine(accts2, txs, "locked")
        ELSE process_dispute(accts2, txs, tx.tx_id, tx.client)

\* PaymentsEngine::process_transaction, TxKind::Dispute arm
dispatch_dispute(accts, txs, tx) ==
    IF is_account_locked(accts, tx.client) THEN Engine(accts, txs, "locked")
    ELSE process_dispute(accts, txs, tx.tx_id, tx.client)

\* Mutant of the Resolve arm: no test of the account's lock.
dispatch_resolve_unlocked(accts, txs, tx) ==
    process_resolve(accts, txs, tx.tx_id, tx.client)

\* PaymentsEngine::process_transaction, TxKind::Resolve arm
dispatch_resolve(accts, txs, tx) ==
    IF is_account_locked(accts, tx.client) THEN Engine(accts, txs, "locked")
    ELSE process_resolve(accts, txs, tx.tx_id, tx.client)

\* Mutant of the Chargeback arm: no lock check.
dispatch_chargeback_unlocked(accts, txs, tx) ==
    process_chargeback(accts, txs, tx.tx_id, tx.client)

\* PaymentsEngine::process_transaction, TxKind::Chargeback arm
dispatch_chargeback(accts, txs, tx) ==
    IF is_account_locked(accts, tx.client) THEN Engine(accts, txs, "locked")
    ELSE process_chargeback(accts, txs, tx.tx_id, tx.client)

\* PaymentsEngine::process_transaction
process_transaction(accts, txs, tx) ==
    CASE tx.kind = "deposit"    -> dispatch_deposit(accts, txs, tx)
      [] tx.kind = "withdrawal" -> dispatch_withdrawal(accts, txs, tx)
      [] tx.kind = "dispute"    -> dispatch_dispute(accts, txs, tx)
      [] tx.kind = "resolve"    -> dispatch_resolve(accts, txs, tx)
      [] tx.kind = "chargeback" -> dispatch_chargeback(accts, txs, tx)

\* HashMap::values: the accounts in some iteration order
RECURSIVE values(_)
values(accts) ==
    IF DOMAIN accts = {} THEN <<>>
    ELSE LET k == CHOOSE x \in DOMAIN accts : \A y \in DOMAIN accts : y <= x
         IN  <<accts[k]>> \o values([x \in DOMAIN accts \ {k} |-> accts[x]])

\* slice::sort_by_key(|a| a.client): insertion of each element in key order
RECURSIVE sort_by_key(_)
sort_by_key(v) ==
    IF Len(v) = 0 THEN <<>>
    ELSE LET rest == sort_by_key(Tail(v))
             lo   == SelectSeq(rest, LAMBDA a : a.client < Head(v).client)
             hi   == SelectSeq(rest, LAMBDA a : ~(a.client < Head(v).client))
         IN  lo \o <<Head(v)>> \o hi

\* u16 / bool to_string as the CSV field
RECURSIVE u_to_string(_)
u_to_string(n) ==
    IF n < 10 THEN <<DigitChars[n + 1]>>
    ELSE u_to_string(n \div 10) \o <<DigitChars[(n % 10) + 1]>>

bool_to_string(b) == IF b THEN <<"t","r","u","e">> ELSE <<"f","a","l","s","e">>

\* The header row of the snapshot.
HeaderRow == <<"client", "available", "held", "total", "locked">>

\* Mutant of write_output: the accounts are written in the map's iteration
\* order, without the sort.
write_output_unsorted(accts) ==
    LET sorted == values(accts)
    IN  <<HeaderRow>> \o
        [i \in 1..Len(sorted) |->
            <<u_to_string(sorted[i].client),
              to_string(sorted[i].available),
              to_string(sorted[i].held),
              to_string(sorted[i].total),
              bool_to_string(sorted[i].locked)>>]

\* PaymentsEngine::write_output: the header row, then one row per account in
\* ascending client order.
write_output(accts) ==
    LET sorted == sort_by_key(values(accts))
    IN  <<HeaderRow>> \o
        [i \in 1..Len(sorted) |->
            <<u_to_string(sorted[i].client),
              to_string(sorted[i].available),
              to_string(sorted[i].held),
              to_string(sorted[i].total),
              bool_to_string(sorted[i].locked)>>]

\* ----------------------------------------------------------- input records

\* The `type` fields the stream may carry.
TypeTexts ==
    { Str_deposit, Str_withdrawal, Str_dispute, Str_resolve, Str_chargeback,
      <<" ","D","e","p","o","s","i","t">>,
      <<"D","I","S","P","U","T","E"," ">>,
      <<"t","r","a","n","s","f","e","r">> }

\* The `amount` fields the stream may carry.  They parse to 0.0001, -0.0001
\* and 0.0000 (some only after trimming, padding or rounding to 4 places);
\* the last three do not parse.
AmountTexts ==
    { <<"0",".","0","0","0","1">>,
      <<" ","0",".","0","0","0","1","0"," ">>,
      <<"0",".","0","0","0","0","5">>,
      <<"+","0",".","0","0","0","1">>,
      <<"-","0",".","0","0","0","1">>,
      <<"-","0",".","0","0","0","1","4","9">>,
      <<"0">>,
      <<"0",".","0">>,
      <<"0",".","0","0","0","0","4">>,
      <<>>,
      <<" "," ">>,
      <<"a","b","c">>,
      <<"1",".","0",".","0">> }

Amounts == {[ok |-> FALSE]} \cup {[ok |-> TRUE, text |-> t] : t \in AmountTexts}

\* TransactionRecord: one deserialized row
RawRecords ==
    { [tx_type |-> ty, client |-> c, tx |-> t, amount |-> a] :
        ty \in TypeTexts, c \in Clients, t \in TxIds, a \in Amounts }

\* ------------------------------------------------------------------- state

VARIABLES
    accounts,          \* PaymentsEngine.accounts
    transactions,      \* PaymentsEngine.transactions
    row,               \* rows of the stream consumed so far (row_idx)
    last,              \* the row consumed last (kind, client, tx) and the
                       \* branch the engine took on it
    output,            \* the snapshot written, <<>> before write_output
    deposits_applied,  \* history: the deposits account.deposit accepted
    deposits_ok,       \* history: how many deposits were accepted
    tx_seen,           \* history: tx ids of the deposit/withdrawal rows so far
    dispute_exceeded,  \* history: clients with an accepted dispute whose
                       \* amount exceeded available when it was applied
    resolved_tx,       \* history: tx ids of the deposits whose dispute was
                       \* resolved at least once
    withdrawn,         \* history: per client, the sum of the amounts
                       \* account.withdraw accepted
    charged_back,      \* history: per client, the amounts
                       \* account.chargeback removed, in order
    stream,            \* history: the records read so far, kept by the runs
                       \* of SpecStreams only
    money              \* the Decimal4 values, text and results of the
                       \* calculation SpecMoney runs; NoMoney elsewhere

vars == <<accounts, transactions, row, last, output,
          deposits_applied, deposits_ok, tx_seen, dispute_exceeded, resolved_tx, withdrawn, charged_back,
          stream, money>>

\* No calculation is running.
NoMoney == [step |-> "none"]

NoRow == [kind |-> "none", client |-> 0, tx_id |-> 0, event |-> "none"]

\* PaymentsEngine::new
Init ==
    /\ accounts = <<>>
    /\ transactions = <<>>
    /\ row = 0
    /\ last = NoRow
    /\ output = <<>>
    /\ deposits_applied = {}
    /\ deposits_ok = 0
    /\ tx_seen = {}
    /\ dispute_exceeded = {}
    /\ resolved_tx = {}
    /\ withdrawn = [c \in Clients |-> ZERO]
    /\ charged_back = [c \in Clients |-> <<>>]
    /\ stream = <<>>
    /\ money = NoMoney

Panicked == last.event = "panic"

\* process_csv may take another row: rows are left, it did not panic, and
\* the snapshot is not written yet.
Reading == row < MaxRows /\ ~Panicked /\ output = <<>>

\* The rows of the stream that record.parse() turns into a transaction, as
\* parsed, and the client and tx of those it rejects.
ParsedRows == {parse(record) : record \in RawRecords} \ {None}

RejectedRows ==
    {[client |-> record.client, tx |-> record.tx] :
        record \in {x \in RawRecords : ~parse(x).ok}}

\* Ingest with the index update of a row left unapplied when the next row is
\* examined.
Ingest_index_late(tx) ==
    LET r == process_transaction(accounts, transactions, tx)
    IN  /\ Reading
        /\ accounts' = r.accounts
        /\ transactions' = transactions
        /\ row' = row + 1
        /\ last' = [kind |-> tx.kind, client |-> tx.client, tx_id |-> tx.tx_id,
                    event |-> r.event]
        /\ deposits_applied' =
             IF r.event = "deposited"
             THEN deposits_applied \cup
                    {[tx_id |-> tx.tx_id, client |-> tx.client, amount |-> tx.amount]}
             ELSE deposits_applied
        /\ deposits_ok' = IF r.event = "deposited" THEN deposits_ok + 1 ELSE deposits_ok
        /\ tx_seen' = IF tx.kind \in {"deposit", "withdrawal"}
                      THEN tx_seen \cup {tx.tx_id} ELSE tx_seen
        /\ dispute_exceeded' = dispute_exceeded
        /\ resolved_tx' = IF r.event = "resolved"
                          THEN resolved_tx \cup {tx.tx_id} ELSE resolved_tx
        /\ withdrawn' = IF r.event = "withdrew"
                         THEN [withdrawn EXCEPT ![tx.client] = add(@, tx.amount)]
                         ELSE withdrawn
        /\ charged_back' =
             IF r.event = "charged_back"
             THEN [charged_back EXCEPT
                     ![tx.client] = Append(@, transactions[tx.tx_id].amount)]
             ELSE charged_back
        /\ UNCHANGED output

\* process_csv, loop body, Ok(record) with record.parse() = Some(tx)
Ingest(tx) ==
    LET r == process_transaction(accounts, transactions, tx)
    IN  /\ Reading
        /\ accounts' = r.accounts
        /\ transactions' = r.transactions
        /\ row' = row + 1
        /\ last' = [kind |-> tx.kind, client |-> tx.client, tx_id |-> tx.tx_id,
                    event |-> r.event]
        /\ deposits_applied' =
             IF r.event = "deposited"
             THEN deposits_applied \cup
                    {[tx_id |-> tx.tx_id, client |-> tx.client, amount |-> tx.amount]}
             ELSE deposits_applied
        /\ deposits_ok' = IF r.event = "deposited" THEN deposits_ok + 1 ELSE deposits_ok
        /\ tx_seen' = IF tx.kind \in {"deposit", "withdrawal"}
                      THEN tx_seen \cup {tx.tx_id} ELSE tx_seen
        /\ dispute_exceeded' =
             IF r.event = "disputed"
                /\ transactions[tx.tx_id].amount > accounts[tx.client].available
             THEN dispute_exceeded \cup {tx.client}
             ELSE dispute_exceeded
        /\ resolved_tx' = IF r.event = "resolved"
                          THEN resolved_tx \cup {tx.tx_id} ELSE resolved_tx
        /\ withdrawn' = IF r.event = "withdrew"
                         THEN [withdrawn EXCEPT ![tx.client] = add(@, tx.amount)]
                         ELSE withdrawn
        /\ charged_back' =
             IF r.event = "charged_back"
             THEN [charged_back EXCEPT
                     ![tx.client] = Append(@, transactions[tx.tx_id].amount)]
             ELSE charged_back
        /\ UNCHANGED output

IngestDeposit == \E tx \in ParsedRows : tx.kind = "deposit" /\ Ingest(tx) /\ UNCHANGED <<stream, money>>

IngestWithdrawal == \E tx \in ParsedRows : tx.kind = "withdrawal" /\ Ingest(tx) /\ UNCHANGED <<stream, money>>

IngestDispute == \E tx \in ParsedRows : tx.kind = "dispute" /\ Ingest(tx) /\ UNCHANGED <<stream, money>>

IngestResolve == \E tx \in ParsedRows : tx.kind = "resolve" /\ Ingest(tx) /\ UNCHANGED <<stream, money>>

IngestChargeback == \E tx \in ParsedRows : tx.kind = "chargeback" /\ Ingest(tx) /\ UNCHANGED <<stream, money>>

\* process_csv, loop body, Ok(record) with record.parse() = None
IngestMalformed ==
    \E record \in RejectedRows :
        /\ Reading
        /\ row' = row + 1
        /\ last' = [kind |-> "malformed", client |-> record.client,
                    tx_id |-> record.tx, event |-> "parse_failed"]
        /\ UNCHANGED <<accounts, transactions, output, deposits_applied,
                       deposits_ok, tx_seen, dispute_exceeded, resolved_tx, withdrawn, charged_back, stream, money>>

\* process_csv, loop body, Err(e): the row did not deserialize
CsvError ==
    /\ Reading
    /\ row' = row + 1
    /\ last' = [kind |-> "csv_error", client |-> 0, tx_id |-> 0,
                event |-> "csv_error"]
    /\ UNCHANGED <<accounts, transactions, output, deposits_applied,
                   deposits_ok, tx_seen, dispute_exceeded, resolved_tx, withdrawn, charged_back, stream, money>>

\* main: write_output once process_csv has returned
WriteOutput ==
    /\ ~Panicked
    /\ output = <<>>
    /\ output' = write_output(accounts)
    /\ UNCHANGED <<accounts, transactions, row, last, deposits_applied,
                   deposits_ok, tx_seen, dispute_exceeded, resolved_tx, withdrawn, charged_back, stream, money>>

Next ==
    \/ IngestDeposit
    \/ IngestWithdrawal
    \/ IngestDispute
    \/ IngestResolve
    \/ IngestChargeback
    \/ IngestMalformed
    \/ CsvError
    \/ WriteOutput

Spec == Init /\ [][Next]_vars

\* process_csv over a sequence of parsed rows: the engine after the last one.
RECURSIVE process_rows(_, _, _)
process_rows(accts, txs, rows) ==
    IF Len(rows) = 0 THEN Engine(accts, txs, "none")
    ELSE LET r == process_transaction(accts, txs, Head(rows))
         IN  IF Len(rows) = 1 THEN r
             ELSE process_rows(r.accounts, r.transactions, Tail(rows))

\* A stream prefix that leaves client c with two deposits of 0.0001, both
\* under dispute: deposit 1, deposit 2, dispute 1, dispute 2.
TwoDisputesPrefix(c) ==
    << [ok |-> TRUE, tx_id |-> 1, client |-> c, kind |-> "deposit", amount |-> 1],
       [ok |-> TRUE, tx_id |-> 2, client |-> c, kind |-> "deposit", amount |-> 1],
       [ok |-> TRUE, tx_id |-> 1, client |-> c, kind |-> "dispute", amount |-> ZERO],
       [ok |-> TRUE, tx_id |-> 2, client |-> c, kind |-> "dispute", amount |-> ZERO] >>

\* The engine after process_csv has consumed TwoDisputesPrefix(c) for some
\* client c; `row` counts the rows consumed after the prefix.
InitTwoDisputes ==
    \E c \in Clients :
        LET e == process_rows(<<>>, <<>>, TwoDisputesPrefix(c))
        IN  /\ accounts = e.accounts
            /\ transactions = e.transactions
            /\ row = 0
            /\ last = [kind |-> "dispute", client |-> c, tx_id |-> 2,
                       event |-> e.event]
            /\ output = <<>>
            /\ deposits_applied =
                  {[tx_id |-> t, client |-> c, amount |-> 1] : t \in {1, 2}}
            /\ deposits_ok = 2
            /\ tx_seen = {1, 2}
            /\ dispute_exceeded = {}
            /\ resolved_tx = {}
            /\ withdrawn = [k \in Clients |-> ZERO]
            /\ charged_back = [k \in Clients |-> <<>>]
            /\ stream = <<>>
            /\ money = NoMoney

\* The runs that continue a stream after TwoDisputesPrefix.
SpecTwoDisputes == InitTwoDisputes /\ [][Next]_vars

\* Number of records of the streams SpecStreams explores.
MaxStream == 3

\* The records of those streams: client 1, tx 1, five kinds (one unknown),
\* the amount absent, 0.0001 or not a number.
StreamRecords ==
    { record \in RawRecords :
        /\ record.client = 1
        /\ record.tx = 1
        /\ record.tx_type \in { Str_deposit, Str_withdrawal, Str_dispute,
                                Str_chargeback, <<"t","r","a","n","s","f","e","r">> }
        /\ record.amount \in { [ok |-> FALSE],
                               [ok |-> TRUE, text |-> <<"0",".","0","0","0","1">>],
                               [ok |-> TRUE, text |-> <<"a","b","c">>] } }

\* process_csv over a sequence of deserialized records: each is parsed and,
\* if it parses, processed; the engine after the last one.
RECURSIVE process_csv(_, _, _)
process_csv(accts, txs, records) ==
    IF Len(records) = 0 THEN Engine(accts, txs, "none")
    ELSE LET tx == parse(Head(records))
             r  == IF tx.ok THEN process_transaction(accts, txs, tx)
                   ELSE Engine(accts, txs, "parse_failed")
         IN  IF Len(records) = 1 THEN r
             ELSE process_csv(r.accounts, r.transactions, Tail(records))

\* process_csv, loop body, Ok(record): the record is parsed and processed or
\* dropped, and remembered in `stream`.
ReadRecord ==
    \E record \in StreamRecords :
        LET tx == parse(record)
        IN  /\ Len(stream) < MaxStream
            /\ stream' = Append(stream, record)
            /\ IF tx.ok
               THEN Ingest(tx)
               ELSE /\ Reading
                    /\ row' = row + 1
                    /\ last' = [kind |-> "malformed", client |-> record.client,
                                tx_id |-> record.tx, event |-> "parse_failed"]
                    /\ UNCHANGED <<accounts, transactions, output,
                                   deposits_applied, deposits_ok, tx_seen,
                                   dispute_exceeded, resolved_tx, withdrawn, charged_back>>
            /\ UNCHANGED money

NextStreams ==
    \/ ReadRecord
    \/ WriteOutput

\* The runs over the streams of up to MaxStream records of StreamRecords.
SpecStreams == Init /\ [][NextStreams]_vars

\* The same runs when the program keeps running: the stream is finite, so the
\* loop of process_csv comes to its end and run() goes on to write_output.
SpecStreamsFair == SpecStreams /\ WF_vars(WriteOutput)

\* Largest magnitude, in ten-thousandths, of the values SpecMoney takes one
\* by one.
MaxMoney == 1100

\* The Decimal4 values SpecMoney formats and parses: every value from
\* -MaxMoney to MaxMoney ten-thousandths, and some with more digits.
MoneyValues ==
    (-MaxMoney..MaxMoney) \cup
    { 9999, 10000, 10001, 99999, 100000, 105000, 12345678, 100000000,
      -9999, -10000, -10001, -99999, -100000, -105000, -12345678, -100000000 }

\* The values it adds and subtracts again.
MoneyAddends == { -12345678, -1, 0, 1, 9999, 12345678 }

\* An empty engine and a pair of values chosen for the calculation.
InitMoney ==
    /\ accounts = <<>>
    /\ transactions = <<>>
    /\ row = 0
    /\ last = NoRow
    /\ output = <<>>
    /\ deposits_applied = {}
    /\ deposits_ok = 0
    /\ tx_seen = {}
    /\ dispute_exceeded = {}
    /\ resolved_tx = {}
    /\ withdrawn = [c \in Clients |-> ZERO]
    /\ charged_back = [c \in Clients |-> <<>>]
    /\ stream = <<>>
    /\ money \in { [step |-> "chosen", a |-> a, b |-> b, text |-> <<>>,
                    parsed |-> None, back |-> <<>>] :
                      a \in MoneyValues, b \in MoneyAddends }

EngineVars ==
    <<accounts, transactions, row, last, output, deposits_applied, deposits_ok,
      tx_seen, dispute_exceeded, resolved_tx, withdrawn, charged_back, stream>>

\* Display: the value a is written as text.
Format ==
    /\ money.step = "chosen"
    /\ money' = [money EXCEPT !.step = "formatted", !.text = to_string(money.a)]
    /\ UNCHANGED EngineVars

\* FromStr: the text is read back.
Parse ==
    /\ money.step = "formatted"
    /\ money' = [money EXCEPT !.step = "parsed",
                              !.parsed = Decimal4_from_str(money.text)]
    /\ UNCHANGED EngineVars

\* Add, Sub, Display: a + b - b is computed and written as text.
AddSubtract ==
    /\ money.step = "parsed"
    /\ money' = [money EXCEPT !.step = "done",
                              !.back = to_string(sub(add(money.a, money.b), money.b))]
    /\ UNCHANGED EngineVars

NextMoney ==
    \/ Format
    \/ Parse
    \/ AddSubtract

\* The calculations on Decimal4 values.
SpecMoney == InitMoney /\ [][NextMoney]_vars

\* ------------------------------------------------------------------ claims

Lifecycle == {"dispute", "resolve", "chargeback"}

\* The accounts that exist before a step keep every field over it.
AccountsKept == \A c \in DOMAIN accounts : c \in DOMAIN accounts' /\ accounts'[c] = accounts[c]

\* The accounts a step creates are fresh: zero balances, not locked.
CreatedFresh ==
    \A c \in DOMAIN accounts' \ DOMAIN accounts : accounts'[c] = ClientAccount_new(c)

\* Client c has a row in the snapshot write_output would emit now.
InSnapshot(c) ==
    LET rows == write_output(accounts)
    IN  \E i \in 2..Len(rows) : rows[i][1] = u_to_string(c)

\* C1: in every reachable state every account satisfies
\* total == available + held.
C1_BalanceInvariant == \A c \in DOMAIN accounts : check_invariant(accounts[c])

\* C1 witness: an account with funds both available and held, after a dispute.
C1_Witness ==
    /\ last.event = "disputed"
    /\ accounts[last.client].held # ZERO
    /\ accounts[last.client].available # ZERO
    /\ check_invariant(accounts[last.client])

\* C2: once an account is locked, no later row of any kind, client or tx
\* changes its available, held, total or locked.
C2_LockedFrozen ==
    [][\A c \in DOMAIN accounts :
          accounts[c].locked => c \in DOMAIN accounts' /\ accounts'[c] = accounts[c]]_vars

\* C2 witness: a deposit row was ingested for a locked account.
C2_Witness ==
    /\ last.event = "locked"
    /\ last.kind = "deposit"
    /\ accounts[last.client].locked

\* C3 (as claimed): available is negative only after an accepted dispute
\* whose stored amount exceeded available when it was applied; no deposit or
\* withdrawal makes it negative.
C3_NegativeOnlyByDispute ==
    \A c \in DOMAIN accounts : accounts[c].available < ZERO => c \in dispute_exceeded

\* C4: a deposit or withdrawal row whose tx id is a key of the index changes
\* no account and leaves the index as it is, whichever client it names.
C4_DuplicateRejected ==
    [][\A tx \in ParsedRows :
          (/\ tx.kind \in {"deposit", "withdrawal"}
           /\ tx.tx_id \in DOMAIN transactions
           /\ Ingest(tx))
          => /\ transactions' = transactions
             /\ AccountsKept
             /\ CreatedFresh]_vars

\* C4 witness: a row was rejected as a duplicate of a deposit owned by
\* another client.
C4_Witness ==
    /\ last.event = "duplicate"
    /\ transactions[last.tx_id].client # last.client

\* C5 (as claimed): a deposit or withdrawal row whose tx id was used by any
\* earlier deposit or withdrawal row changes no balance.
C5_AnyPriorRecordSuppresses ==
    [][\A tx \in ParsedRows :
          (/\ tx.kind \in {"deposit", "withdrawal"}
           /\ tx.tx_id \in tx_seen
           /\ Ingest(tx))
          => AccountsKept /\ CreatedFresh]_vars

\* C5 (amended): a deposit or withdrawal row whose tx id is that of an
\* earlier successfully applied deposit changes no balance and is not
\* counted as a deposit.
C5_AppliedDepositSuppresses ==
    [][\A tx \in ParsedRows :
          (/\ tx.kind \in {"deposit", "withdrawal"}
           /\ \E d \in deposits_applied : d.tx_id = tx.tx_id
           /\ Ingest(tx))
          => /\ AccountsKept
             /\ CreatedFresh
             /\ deposits_ok' = deposits_ok
             /\ last'.event \in {"duplicate", "locked"}]_vars

\* C5 witness: a withdrawal row was rejected for reusing the tx id of an
\* applied deposit.
C5_Witness ==
    /\ last.event = "duplicate"
    /\ last.kind = "withdrawal"
    /\ \E d \in deposits_applied : d.tx_id = last.tx_id

\* C6: the index has an entry for tx id t exactly when a deposit row with id
\* t was applied, with that deposit's client and amount, and it has as many
\* entries as deposits were applied.
C6_IndexIsAppliedDeposits ==
    /\ DOMAIN transactions = {d.tx_id : d \in deposits_applied}
    /\ \A d \in deposits_applied :
          /\ transactions[d.tx_id].tx_id = d.tx_id
          /\ transactions[d.tx_id].client = d.client
          /\ transactions[d.tx_id].amount = d.amount
    /\ Cardinality(DOMAIN transactions) = deposits_ok

\* C6 witness: a withdrawal succeeded under a tx id of its own and the index
\* still holds the one applied deposit only.
C6_Witness ==
    /\ last.event = "withdrew"
    /\ deposits_ok = 1
    /\ last.tx_id \notin DOMAIN transactions

\* C7 (as claimed): after a row of any of the five kinds naming client c, an
\* account for c exists and has a row in the snapshot.
C7_AnyRecordCreates ==
    last.kind \in {"deposit", "withdrawal"} \cup Lifecycle
        => last.client \in DOMAIN accounts /\ InSnapshot(last.client)

\* C7 (amended): after a deposit or withdrawal row with a parseable amount
\* naming client c, an account for c exists and has a row in the snapshot.
C7_DepositWithdrawalCreates ==
    last.kind \in {"deposit", "withdrawal"}
        => last.client \in DOMAIN accounts /\ InSnapshot(last.client)

\* C7 witness: the first row is a failing withdrawal and its client has a
\* fresh account.
C7_Witness ==
    /\ row = 1
    /\ last.event = "withdrawal_failed"
    /\ accounts[last.client] = ClientAccount_new(last.client)
    /\ InSnapshot(last.client)

\* C8: a dispute, resolve or chargeback row leaves the set of accounts as it
\* is, and changes nothing at all when its client has no account.
C8_LifecycleCreatesNoAccount ==
    [][\A tx \in ParsedRows :
          (tx.kind \in Lifecycle /\ Ingest(tx))
          => /\ DOMAIN accounts' = DOMAIN accounts
             /\ tx.client \notin DOMAIN accounts
                  => accounts' = accounts /\ transactions' = transactions]_vars

\* C8 witness: a lifecycle row named a stored deposit and a client without
\* an account.
C8_Witness ==
    /\ last.kind \in Lifecycle
    /\ last.client \notin DOMAIN accounts
    /\ last.tx_id \in DOMAIN transactions

\* C9: a dispute on an indexed tx owned by the row's client, not under
\* dispute, account not locked, is accepted whatever available is:
\* under_dispute becomes true, available falls and held rises by the stored
\* amount, total and locked stay.
C9_DisputeHolds ==
    [][\A tx \in ParsedRows :
          (/\ tx.kind = "dispute"
           /\ tx.tx_id \in DOMAIN transactions
           /\ transactions[tx.tx_id].client = tx.client
           /\ ~transactions[tx.tx_id].under_dispute
           /\ ~is_account_locked(accounts, tx.client)
           /\ Ingest(tx))
          => /\ tx.client \in DOMAIN accounts
             /\ transactions' =
                  [transactions EXCEPT ![tx.tx_id].under_dispute = TRUE]
             /\ accounts'[tx.client].available =
                  accounts[tx.client].available - transactions[tx.tx_id].amount
             /\ accounts'[tx.client].held =
                  accounts[tx.client].held + transactions[tx.tx_id].amount
             /\ accounts'[tx.client].total = accounts[tx.client].total
             /\ accounts'[tx.client].locked = accounts[tx.client].locked]_vars

\* C9 witness: an accepted dispute left available below zero.
C9_Witness ==
    /\ last.event = "disputed"
    /\ transactions[last.tx_id].under_dispute
    /\ accounts[last.client].available < ZERO
    /\ accounts[last.client].held > ZERO

\* C10: a resolve on an indexed tx owned by the row's client, under dispute,
\* account not locked: under_dispute becomes false, held falls and available
\* rises by the stored amount, total and locked stay.
C10_ResolveReleases ==
    [][\A tx \in ParsedRows :
          (/\ tx.kind = "resolve"
           /\ tx.tx_id \in DOMAIN transactions
           /\ transactions[tx.tx_id].client = tx.client
           /\ transactions[tx.tx_id].under_dispute
           /\ ~is_account_locked(accounts, tx.client)
           /\ Ingest(tx))
          => /\ tx.client \in DOMAIN accounts
             /\ transactions' =
                  [transactions EXCEPT ![tx.tx_id].under_dispute = FALSE]
             /\ accounts'[tx.client].held =
                  accounts[tx.client].held - transactions[tx.tx_id].amount
             /\ accounts'[tx.client].available =
                  accounts[tx.client].available + transactions[tx.tx_id].amount
             /\ accounts'[tx.client].total = accounts[tx.client].total
             /\ accounts'[tx.client].locked = accounts[tx.client].locked]_vars

\* C10 witness: a resolve was applied to a deposit of a positive amount and
\* released it.
C10_Witness ==
    /\ last.event = "resolved"
    /\ ~transactions[last.tx_id].under_dispute
    /\ transactions[last.tx_id].amount > ZERO
    /\ accounts[last.client].available > ZERO

\* C11: a chargeback naming an indexed deposit that the record's client owns
\* and that is under dispute, on an unlocked account, clears under_dispute,
\* lowers held and total by the stored amount, leaves available alone and
\* locks the account; what is held for the client's other disputed deposits
\* stays held and no other index entry changes.
C11_ChargebackRemoves ==
    [][\A tx \in ParsedRows :
          (/\ tx.kind = "chargeback"
           /\ tx.tx_id \in DOMAIN transactions
           /\ transactions[tx.tx_id].client = tx.client
           /\ transactions[tx.tx_id].under_dispute
           /\ ~is_account_locked(accounts, tx.client)
           /\ Ingest(tx))
          => /\ tx.client \in DOMAIN accounts
             /\ transactions' = [transactions EXCEPT ![tx.tx_id].under_dispute = FALSE]
             /\ accounts'[tx.client].held =
                    accounts[tx.client].held - transactions[tx.tx_id].amount
             /\ accounts'[tx.client].total =
                    accounts[tx.client].total - transactions[tx.tx_id].amount
             /\ accounts'[tx.client].available = accounts[tx.client].available
             /\ accounts'[tx.client].locked]_vars

\* A chargeback was applied while another deposit of the same client is still
\* under dispute, and its amount is still held.
C11_Witness ==
    /\ last.event = "charged_back"
    /\ accounts[last.client].locked
    /\ ~transactions[last.tx_id].under_dispute
    /\ \E t \in DOMAIN transactions :
          /\ t # last.tx_id
          /\ transactions[t].client = last.client
          /\ transactions[t].under_dispute
          /\ transactions[t].amount > ZERO
          /\ accounts[last.client].held = transactions[t].amount

\* C12: a dispute, resolve or chargeback whose client is not the owner
\* recorded in the stored deposit changes no account and no index entry,
\* whether the deposit is under dispute or not.
C12_ClientMismatchDropped ==
    [][\A tx \in ParsedRows :
          (/\ tx.kind \in Lifecycle
           /\ tx.tx_id \in DOMAIN transactions
           /\ transactions[tx.tx_id].client # tx.client
           /\ Ingest(tx))
          => /\ accounts' = accounts
             /\ transactions' = transactions]_vars

\* A record of a client with an account named a deposit of another client
\* that is under dispute, and was dropped for the mismatch.
C12_Witness ==
    /\ last.event = "client_mismatch"
    /\ last.client \in DOMAIN accounts
    /\ transactions[last.tx_id].under_dispute
    /\ transactions[last.tx_id].client # last.client
    /\ accounts[transactions[last.tx_id].client].held # ZERO

\* C13: under_dispute of a stored deposit changes only from false to true in
\* the step of a dispute naming it and from true to false in the step of a
\* resolve or chargeback naming it; a dispute of a deposit already under
\* dispute, a resolve or chargeback of one not under dispute, and any of the
\* three naming a tx id absent from the index leave all accounts and all
\* index entries unchanged.
C13_OnlyTransitions ==
    [][/\ \A t \in DOMAIN transactions :
             /\ t \in DOMAIN transactions'
             /\ (transactions'[t].under_dispute # transactions[t].under_dispute)
                => /\ last'.tx_id = t
                   /\ \/ /\ last'.kind = "dispute"
                         /\ ~transactions[t].under_dispute
                      \/ /\ last'.kind \in {"resolve", "chargeback"}
                         /\ transactions[t].under_dispute
       /\ \A t \in DOMAIN transactions' \ DOMAIN transactions :
             ~transactions'[t].under_dispute
       /\ \A tx \in ParsedRows :
             (/\ tx.kind \in Lifecycle
              /\ \/ tx.tx_id \notin DOMAIN transactions
                 \/ /\ tx.tx_id \in DOMAIN transactions
                    /\ tx.kind = "dispute"
                    /\ transactions[tx.tx_id].under_dispute
                 \/ /\ tx.tx_id \in DOMAIN transactions
                    /\ tx.kind \in {"resolve", "chargeback"}
                    /\ ~transactions[tx.tx_id].under_dispute
              /\ Ingest(tx))
             => /\ accounts' = accounts
                /\ transactions' = transactions]_vars

\* A chargeback by its owner named a deposit that is not under dispute and
\* was dropped, the account staying unlocked with its funds.
C13_Witness ==
    /\ last.event = "not_disputed"
    /\ last.kind = "chargeback"
    /\ ~transactions[last.tx_id].under_dispute
    /\ ~accounts[last.client].locked
    /\ accounts[last.client].total > ZERO

\* C14: in the state a deposit, dispute, resolve or chargeback row has just
\* left, ingesting the same row once more (process_transaction applied to
\* that state) leaves the accounts and the index exactly as they are; the
\* repeat of an applied deposit is dropped as a duplicate, of an applied
\* dispute as already disputed, of an applied resolve as not disputed, of an
\* applied chargeback because the account is now locked.
C14_RepeatIsNoOp ==
    \A tx \in ParsedRows :
        (/\ last.kind \in {"deposit", "dispute", "resolve", "chargeback"}
         /\ tx.kind = last.kind
         /\ tx.client = last.client
         /\ tx.tx_id = last.tx_id)
        => LET again == process_transaction(accounts, transactions, tx)
           IN  /\ again.accounts = accounts
               /\ again.transactions = transactions
               /\ last.event = "deposited" => again.event = "duplicate"
               /\ last.event = "disputed" => again.event = "already_disputed"
               /\ last.event = "resolved" => again.event = "not_disputed"
               /\ last.event = "charged_back" => again.event = "locked"

\* The stream was one deposit row twice: the second was dropped as a
\* duplicate and the account holds the amount once.
C14_Witness ==
    /\ row = 2
    /\ last.kind = "deposit"
    /\ last.event = "duplicate"
    /\ transactions[last.tx_id].client = last.client
    /\ transactions[last.tx_id].amount > ZERO
    /\ accounts[last.client].total = transactions[last.tx_id].amount
    /\ deposits_ok = 1

\* C15: in the step of an accepted dispute of deposit t, a resolve of t by
\* the same client applied to the state the dispute leaves is accepted and
\* gives back every account exactly as it was before the dispute (available,
\* held, total, locked) and an index in which t is not under dispute.
C15_DisputeResolveRestores ==
    [][\A tx \in ParsedRows :
          (/\ tx.kind = "dispute"
           /\ Ingest(tx)
           /\ last'.event = "disputed")
          => LET resolved == process_transaction(accounts', transactions',
                                                 [tx EXCEPT !.kind = "resolve"])
             IN  /\ resolved.event = "resolved"
                 /\ resolved.accounts = accounts
                 /\ resolved.transactions = transactions
                 /\ ~resolved.transactions[tx.tx_id].under_dispute]_vars

\* A resolve was applied to a deposit of a positive amount and the account
\* holds nothing and has the whole amount available again.
C15_Witness ==
    /\ last.event = "resolved"
    /\ ~transactions[last.tx_id].under_dispute
    /\ transactions[last.tx_id].amount > ZERO
    /\ ~accounts[last.client].locked
    /\ accounts[last.client].held = ZERO
    /\ accounts[last.client].available = accounts[last.client].total
    /\ accounts[last.client].total = transactions[last.tx_id].amount

\* C16: a dispute by its owner of a deposit whose dispute was resolved
\* before, not under dispute now, on an unlocked account, is accepted: the
\* deposit is under dispute again and the stored amount moves from available
\* to held again.  In the step of any accepted resolve, a dispute of the same
\* deposit applied to the state the resolve leaves is accepted and gives back
\* exactly the accounts and index the resolve started from, so dispute and
\* resolve alternate between the same two engine states without end.
C16_DisputeAgainAfterResolve ==
    [][/\ \A tx \in ParsedRows :
             (/\ tx.kind = "dispute"
              /\ tx.tx_id \in resolved_tx
              /\ tx.tx_id \in DOMAIN transactions
              /\ transactions[tx.tx_id].client = tx.client
              /\ ~transactions[tx.tx_id].under_dispute
              /\ ~is_account_locked(accounts, tx.client)
              /\ Ingest(tx))
             => /\ last'.event = "disputed"
                /\ transactions' =
                       [transactions EXCEPT ![tx.tx_id].under_dispute = TRUE]
                /\ accounts'[tx.client].held =
                       accounts[tx.client].held + transactions[tx.tx_id].amount
                /\ accounts'[tx.client].available =
                       accounts[tx.client].available - transactions[tx.tx_id].amount
       /\ \A tx \in ParsedRows :
             (/\ tx.kind = "resolve"
              /\ Ingest(tx)
              /\ last'.event = "resolved")
             => LET disputed == process_transaction(accounts', transactions',
                                                    [tx EXCEPT !.kind = "dispute"])
                IN  /\ disputed.event = "disputed"
                    /\ disputed.accounts = accounts
                    /\ disputed.transactions = transactions]_vars

\* A deposit of a positive amount whose dispute had been resolved was
\* disputed again, and its amount is held.
C16_Witness ==
    /\ last.event = "disputed"
    /\ last.tx_id \in resolved_tx
    /\ transactions[last.tx_id].under_dispute
    /\ transactions[last.tx_id].amount > ZERO
    /\ accounts[last.client].held = transactions[last.tx_id].amount

\* The account of client c as the Deposit and Withdrawal arms see it after
\* ensure_account_exists: the one in the map, or a fresh one.
AccountOrFresh(c) ==
    IF c \in DOMAIN accounts THEN accounts[c] ELSE ClientAccount_new(c)

\* C17: an account is created not locked; locked turns from false to true
\* only in the step that applies a chargeback by the account's client on a
\* disputed deposit of that client; a locked account stays in the map and
\* stays locked over every step.
C17_LockedOnlyByChargeback ==
    [][/\ \A c \in DOMAIN accounts' \ DOMAIN accounts : ~accounts'[c].locked
       /\ \A c \in DOMAIN accounts :
             /\ c \in DOMAIN accounts'
             /\ accounts[c].locked => accounts'[c].locked
             /\ (~accounts[c].locked /\ accounts'[c].locked)
                => /\ last'.kind = "chargeback"
                   /\ last'.event = "charged_back"
                   /\ last'.client = c
                   /\ last'.tx_id \in DOMAIN transactions
                   /\ transactions[last'.tx_id].client = c
                   /\ transactions[last'.tx_id].under_dispute]_vars

\* An account locked by a chargeback is still locked after a later deposit
\* row for it was turned away.
C17_Witness ==
    /\ last.kind = "deposit"
    /\ last.event = "locked"
    /\ accounts[last.client].locked
    /\ \E t \in DOMAIN transactions : transactions[t].client = last.client

\* C18: a withdrawal row succeeds exactly when the account is not locked,
\* its tx id is not a key of the index and available >= amount; on success
\* available and total drop by the amount and held and locked are the same,
\* otherwise the account is unchanged (a fresh zero account if the client had
\* none); the index never changes.
C18_WithdrawalExactly ==
    [][\A tx \in ParsedRows :
          (tx.kind = "withdrawal" /\ Ingest(tx))
          => LET before == AccountOrFresh(tx.client)
                 ok == /\ ~before.locked
                       /\ tx.tx_id \notin DOMAIN transactions
                       /\ before.available >= tx.amount
             IN  /\ (last'.event = "withdrew") <=> ok
                 /\ transactions' = transactions
                 /\ accounts'[tx.client] =
                       IF ok
                       THEN [before EXCEPT !.available = @ - tx.amount,
                                           !.total = @ - tx.amount]
                       ELSE before]_vars

\* A withdrawal failed on an unlocked account whose funds are all held:
\* total is positive, available is zero.
C18_Witness ==
    /\ last.kind = "withdrawal"
    /\ last.event = "withdrawal_failed"
    /\ ~accounts[last.client].locked
    /\ accounts[last.client].available = ZERO
    /\ accounts[last.client].held > ZERO
    /\ accounts[last.client].total = accounts[last.client].held

\* C19: a deposit row whose tx id is not a key of the index, for an account
\* that is not locked, is applied: available and total rise by the amount,
\* held and locked are the same, and the index gains the entry
\* {tx, client, amount, under_dispute = false}; a deposit row for a locked
\* account changes no account and no index entry.
C19_DepositApplies ==
    [][\A tx \in ParsedRows :
          (tx.kind = "deposit" /\ Ingest(tx))
          => LET before == AccountOrFresh(tx.client)
             IN  /\ (tx.tx_id \notin DOMAIN transactions /\ ~before.locked)
                    => /\ last'.event = "deposited"
                       /\ accounts'[tx.client] =
                             [before EXCEPT !.available = @ + tx.amount,
                                            !.total = @ + tx.amount]
                       /\ transactions' =
                             Insert(transactions, tx.tx_id,
                                    [tx_id |-> tx.tx_id, client |-> tx.client,
                                     amount |-> tx.amount, under_dispute |-> FALSE])
                 /\ before.locked
                    => /\ accounts' = accounts
                       /\ transactions' = transactions]_vars

\* A second deposit was applied to an account that has funds held: the index
\* has both deposits and the held amount is that of the disputed one.
C19_Witness ==
    /\ last.kind = "deposit"
    /\ last.event = "deposited"
    /\ ~transactions[last.tx_id].under_dispute
    /\ \E t \in DOMAIN transactions :
          /\ t # last.tx_id
          /\ transactions[t].client = last.client
          /\ transactions[t].under_dispute
          /\ accounts[last.client].held = transactions[t].amount
          /\ accounts[last.client].held > ZERO

\* C20: in every reachable state every account's held is greater than or
\* equal to zero.
C20_HeldNonNegative == \A c \in DOMAIN accounts : accounts[c].held >= ZERO

\* C21: while an account is locked, its held and total stay as they are and
\* its deposits that are under dispute stay under dispute over every step;
\* a resolve or chargeback row, of any client, naming such a deposit changes
\* no account and no index entry.
C21_HeldStaysAfterLock ==
    [][\A c \in DOMAIN accounts :
          accounts[c].locked
          => /\ accounts'[c].held = accounts[c].held
             /\ accounts'[c].total = accounts[c].total
             /\ \A t \in DOMAIN transactions :
                   (transactions[t].client = c /\ transactions[t].under_dispute)
                   => /\ transactions'[t] = transactions[t]
                      /\ \A tx \in ParsedRows :
                            (/\ tx.kind \in {"resolve", "chargeback"}
                             /\ tx.tx_id = t
                             /\ Ingest(tx))
                            => /\ accounts' = accounts
                               /\ transactions' = transactions
                               /\ last'.event \in {"locked", "client_mismatch"}]_vars

\* After one of two disputed deposits of a client was charged back, a
\* resolve or chargeback by that client for the other was dropped because
\* the account is locked; its amount is still held and the deposit is still
\* under dispute.
C21_Witness ==
    /\ last.kind \in {"resolve", "chargeback"}
    /\ last.event = "locked"
    /\ accounts[last.client].locked
    /\ last.tx_id \in DOMAIN transactions
    /\ transactions[last.tx_id].client = last.client
    /\ transactions[last.tx_id].under_dispute
    /\ transactions[last.tx_id].amount > ZERO
    /\ accounts[last.client].held = transactions[last.tx_id].amount
    /\ accounts[last.client].total = accounts[last.client].available
                                     + transactions[last.tx_id].amount

\* The records C22 is about: an unknown kind, or a deposit/withdrawal whose
\* amount is missing, empty (or blank) or not a number.
UnknownKindTexts == { <<"t","r","a","n","s","f","e","r">> }

AmountKindTexts ==
    { Str_deposit, Str_withdrawal, <<" ","D","e","p","o","s","i","t">> }

BadAmountTexts ==
    { <<>>, <<" "," ">>, <<"a","b","c">>, <<"1",".","0",".","0">> }

MalformedRecords ==
    { record \in RawRecords :
        \/ record.tx_type \in UnknownKindTexts
        \/ /\ record.tx_type \in AmountKindTexts
           /\ \/ ~record.amount.ok
              \/ record.amount.text \in BadAmountTexts }

\* What record.parse() returns for each of them.
MalformedOutcomes ==
    { [client |-> record.client, tx |-> record.tx, parsed |-> parse(record)] :
        record \in MalformedRecords }

\* C22: the step that consumes a record with an unknown kind, or a
\* deposit/withdrawal record whose amount is missing, empty or unparseable,
\* changes no account (none is created) and no index entry, does not panic
\* and leaves the engine reading the following rows.
C22_MalformedDropped ==
    [][\A m \in MalformedOutcomes :
          (/\ Reading
           /\ row' = row + 1
           /\ IF m.parsed.ok
              THEN Ingest(m.parsed)
              ELSE last' = [kind |-> "malformed", client |-> m.client,
                            tx_id |-> m.tx, event |-> "parse_failed"])
          => /\ accounts' = accounts
             /\ transactions' = transactions
             /\ ~Panicked'
             /\ output' = <<>>
             /\ last'.event = "parse_failed"]_vars

\* A malformed record of a client without an account was dropped in a
\* stream that has created another client's account and applied a deposit.
C22_Witness ==
    /\ last.kind = "malformed"
    /\ last.event = "parse_failed"
    /\ last.client \notin DOMAIN accounts
    /\ DOMAIN accounts # {}
    /\ deposits_ok > 0

\* The snapshot row of an account with zero balances that is not locked.
ZeroText == <<"0",".","0","0","0","0">>

ZeroRow(c) == <<u_to_string(c), ZeroText, ZeroText, ZeroText, bool_to_string(FALSE)>>

\* C23: after the step of any deposit or withdrawal row the row's client has
\* an account; when the client had none and the row was rejected (duplicate
\* tx id, insufficient funds) the account is zero in available, held and
\* total, not locked, and the snapshot written from that state has its row
\* with 0.0000 balances and false.
C23_RejectedStillCreates ==
    [][(last'.kind \in {"deposit", "withdrawal"} /\ row' = row + 1)
       => /\ last'.client \in DOMAIN accounts'
          /\ (/\ last'.client \notin DOMAIN accounts
              /\ last'.event \in {"duplicate", "withdrawal_failed"})
             => /\ accounts'[last'.client].available = ZERO
                /\ accounts'[last'.client].held = ZERO
                /\ accounts'[last'.client].total = ZERO
                /\ ~accounts'[last'.client].locked
                /\ LET rows == write_output(accounts')
                   IN  \E i \in 2..Len(rows) : rows[i] = ZeroRow(last'.client)]_vars

\* The first row of the stream was a withdrawal that failed for lack of
\* funds, and the snapshot written has the client's row with zero balances.
C23_Witness ==
    /\ row = 1
    /\ last.kind = "withdrawal"
    /\ last.event = "withdrawal_failed"
    /\ output # <<>>
    /\ \E i \in 2..Len(output) : output[i] = ZeroRow(last.client)

\* Every order in which the account map may hand out its accounts.
IterationOrders(accts) ==
    LET n == Cardinality(DOMAIN accts)
    IN  { [i \in 1..n |-> accts[f[i]]] :
            f \in { g \in [1..n -> DOMAIN accts] :
                      \A i, j \in 1..n : i # j => g[i] # g[j] } }

\* C24: the snapshot written is the header row followed by exactly one row
\* per account of the map, each client once, in strictly ascending client
\* id order, carrying that account's fields; sorting any iteration order of
\* the map gives the same rows; with no account it is the header row alone.
C24_SnapshotSorted ==
    output # <<>>
    => /\ output[1] = HeaderRow
       /\ Len(output) = 1 + Cardinality(DOMAIN accounts)
       /\ DOMAIN accounts = {} => output = <<HeaderRow>>
       /\ \A c \in DOMAIN accounts :
             Cardinality({i \in 2..Len(output) : output[i][1] = u_to_string(c)}) = 1
       /\ \A i, j \in 2..Len(output) :
             i < j => \E c, d \in DOMAIN accounts :
                         /\ c < d
                         /\ output[i][1] = u_to_string(c)
                         /\ output[j][1] = u_to_string(d)
       /\ \A i \in 2..Len(output) : \E c \in DOMAIN accounts :
             output[i] = <<u_to_string(c), to_string(accounts[c].available),
                           to_string(accounts[c].held), to_string(accounts[c].total),
                           bool_to_string(accounts[c].locked)>>
       /\ \A order \in IterationOrders(accounts) :
             LET sorted == sort_by_key(order)
             IN  /\ Len(sorted) = Len(output) - 1
                 /\ \A i \in 1..Len(sorted) :
                       output[i + 1][1] = u_to_string(sorted[i].client)

\* A snapshot of two accounts was written: client 1's row, then client 2's.
C24_Witness ==
    /\ Len(output) = 3
    /\ output[2][1] = u_to_string(1)
    /\ output[3][1] = u_to_string(2)
    /\ accounts[1] # accounts[2]

\* The stream with every malformed record removed.
WithoutMalformed(records) ==
    SelectSeq(records, LAMBDA record : record \notin MalformedRecords)

\* C26: the snapshot of the engine after any stream is the snapshot
\* process_csv yields for the same stream with every malformed record
\* (unknown kind, deposit/withdrawal with a missing or unparseable amount)
\* removed, and the snapshot written is that one.
C26_MalformedRemovedSameSnapshot ==
    LET clean == process_csv(<<>>, <<>>, WithoutMalformed(stream))
    IN  /\ write_output(accounts) = write_output(clean.accounts)
        /\ output # <<>> => output = write_output(clean.accounts)

\* The snapshot of a stream was written in which a malformed record was
\* followed by an applied deposit: it has the depositor's row.
C26_Witness ==
    /\ output # <<>>
    /\ Len(output) = 2
    /\ Len(stream) >= 2
    /\ stream[1] \in MalformedRecords
    /\ last.event = "deposited"
    /\ Len(WithoutMalformed(stream)) < Len(stream)

\* The amounts the rows of the stream carry.
RowAmounts == {tx.amount : tx \in ParsedRows}

\* C27: for every account the engine reaches and every amount a row can
\* carry: on a locked account deposit, withdraw, hold, release and chargeback
\* return false and give back the account unchanged; withdraw with
\* available < amount returns false and gives back the account unchanged; a
\* mutator that returns false never changes the account; one that returns
\* true has changed exactly the fields of its row in the table
\* (deposit: available, total +a; withdraw: available, total -a; hold:
\* available -a, held +a; release: held -a, available +a; chargeback: held,
\* total -a, locked = true).
C27_MutatorContract ==
    \A c \in DOMAIN accounts : \A a \in RowAmounts :
        LET acct == accounts[c]
            d == deposit(acct, a)
            w == withdraw(acct, a)
            h == hold(acct, a)
            r == release(acct, a)
            k == chargeback(acct, a)
        IN  /\ acct.locked
               => \A m \in {d, w, h, r, k} : ~m.ok /\ m.account = acct
            /\ acct.available < a => (~w.ok /\ w.account = acct)
            /\ \A m \in {d, w, h, r, k} : ~m.ok => m.account = acct
            /\ d.ok => d.account = [acct EXCEPT !.available = @ + a, !.total = @ + a]
            /\ w.ok => w.account = [acct EXCEPT !.available = @ - a, !.total = @ - a]
            /\ h.ok => h.account = [acct EXCEPT !.available = @ - a, !.held = @ + a]
            /\ r.ok => r.account = [acct EXCEPT !.held = @ - a, !.available = @ + a]
            /\ k.ok => k.account = [acct EXCEPT !.held = @ - a, !.total = @ - a,
                                                !.locked = TRUE]

\* A locked account with funds available is reached: withdraw refuses an
\* amount that available covers, and deposit refuses too.
C27_Witness ==
    \E c \in DOMAIN accounts :
        /\ accounts[c].locked
        /\ accounts[c].available > ZERO
        /\ ~withdraw(accounts[c], accounts[c].available).ok
        /\ ~deposit(accounts[c], accounts[c].available).ok

\* C28: over every step each entry of the index stays in the index with the
\* same tx id, client and amount (only under_dispute may differ); an entry
\* the step adds carries the tx id and client of the row ingested, and every
\* entry's client and amount are those of the deposit that was applied for
\* its tx id.
C28_StoredTxPinned ==
    [][/\ \A t \in DOMAIN transactions :
             /\ t \in DOMAIN transactions'
             /\ transactions'[t].tx_id = transactions[t].tx_id
             /\ transactions'[t].client = transactions[t].client
             /\ transactions'[t].amount = transactions[t].amount
       /\ \A t \in DOMAIN transactions' \ DOMAIN transactions :
             /\ last'.kind = "deposit"
             /\ last'.tx_id = t
             /\ transactions'[t].tx_id = t
             /\ transactions'[t].client = last'.client
       /\ \A t \in DOMAIN transactions' :
             [tx_id |-> t, client |-> transactions'[t].client,
              amount |-> transactions'[t].amount] \in deposits_applied']_vars

\* A deposit that went through a dispute and a resolve is still in the
\* index with its owner after another client's deposit reused its tx id.
C28_Witness ==
    /\ last.kind = "deposit"
    /\ last.event = "duplicate"
    /\ last.tx_id \in resolved_tx
    /\ transactions[last.tx_id].client # last.client
    /\ Cardinality(deposits_applied) = 1

\* C29 as stated: a deposit or withdrawal row of amount 0.0000, for an
\* unlocked account and a tx id that is not in the index, is accepted and
\* leaves available, held and total unchanged.  It is stated here for the
\* streams in which no deposit of a negative amount was applied, so that a
\* violation does not rest on signed amounts.
C29_ZeroAccepted ==
    [][\A tx \in ParsedRows :
          (/\ tx.kind \in {"deposit", "withdrawal"}
           /\ tx.amount = ZERO
           /\ \A d \in deposits_applied : d.amount >= ZERO
           /\ tx.tx_id \notin DOMAIN transactions
           /\ ~AccountOrFresh(tx.client).locked
           /\ Ingest(tx))
          => /\ last'.event \in {"deposited", "withdrew"}
             /\ accounts'[tx.client] = AccountOrFresh(tx.client)]_vars

\* C29 amended: such a row leaves available, held and total unchanged; a
\* zero deposit is accepted and stored with amount zero; a zero withdrawal is
\* accepted exactly when available >= 0, in particular when available is
\* zero, and fails when a dispute has left available negative.
C29_ZeroAcceptedUnlessOverdrawn ==
    [][\A tx \in ParsedRows :
          (/\ tx.kind \in {"deposit", "withdrawal"}
           /\ tx.amount = ZERO
           /\ tx.tx_id \notin DOMAIN transactions
           /\ ~AccountOrFresh(tx.client).locked
           /\ Ingest(tx))
          => /\ accounts'[tx.client] = AccountOrFresh(tx.client)
             /\ tx.kind = "deposit"
                => /\ last'.event = "deposited"
                   /\ transactions'[tx.tx_id].amount = ZERO
             /\ tx.kind = "withdrawal"
                => /\ transactions' = transactions
                   /\ last'.event =
                        IF AccountOrFresh(tx.client).available >= ZERO
                        THEN "withdrew" ELSE "withdrawal_failed"]_vars

\* The first row of the stream was a withdrawal that succeeded and left the
\* fresh account at zero: a zero withdrawal from a zero balance.
C29_Witness ==
    /\ row = 1
    /\ last.kind = "withdrawal"
    /\ last.event = "withdrew"
    /\ accounts[last.client] = ClientAccount_new(last.client)

C31_WithdrawalNotDisputable ==
    [][/\ (/\ last.kind = "withdrawal"
           /\ last.event \in {"withdrew", "withdrawal_failed"}
           /\ last'.kind \in Lifecycle
           /\ last'.tx_id = last.tx_id
           /\ row' = row + 1)
          => /\ accounts' = accounts
             /\ transactions' = transactions
             /\ last'.event \in {"unknown_tx", "locked"}
       /\ (/\ last'.kind \in Lifecycle
           /\ row' = row + 1
           /\ last'.tx_id \in tx_seen
           /\ last'.tx_id \notin DOMAIN transactions)
          => /\ accounts' = accounts
             /\ transactions' = transactions
             /\ last'.event \in {"unknown_tx", "locked"}]_vars

\* After a deposit and a withdrawal that took all of it, a dispute naming
\* the withdrawal's tx id was dropped: the index holds the deposit only and
\* the account is empty with nothing held.
C31_Witness ==
    /\ row = 3
    /\ last.kind = "dispute"
    /\ last.event = "unknown_tx"
    /\ last.tx_id \in tx_seen
    /\ last.tx_id \notin DOMAIN transactions
    /\ deposits_ok = 1
    /\ last.client \in DOMAIN accounts
    /\ accounts[last.client].total = ZERO
    /\ accounts[last.client].held = ZERO
    /\ \E t \in DOMAIN transactions :
          transactions[t].client = last.client /\ transactions[t].amount > ZERO

C33_StoredTxHasAccount ==
    /\ \A t \in DOMAIN transactions : transactions[t].client \in DOMAIN accounts
    /\ ~Panicked

\* A deposit was disputed, resolved, disputed again and charged back: all
\* three lookups were made, the last one just now.
C33_Witness ==
    /\ last.event = "charged_back"
    /\ last.tx_id \in resolved_tx
    /\ last.tx_id \in DOMAIN transactions
    /\ transactions[last.tx_id].client = last.client
    /\ is_locked(accounts[last.client])

\* The sum of the amounts of the entries of txs with an id in ids.
RECURSIVE SumAmounts(_, _)
SumAmounts(txs, ids) ==
    IF ids = {} THEN ZERO
    ELSE LET t == CHOOSE x \in ids : TRUE
         IN  add(txs[t].amount, SumAmounts(txs, ids \ {t}))

\* The ids of the entries of the index owned by client c and under dispute.
UnderDisputeOf(c) ==
    {t \in DOMAIN transactions :
        transactions[t].client = c /\ transactions[t].under_dispute}

\* C34: in every reachable state each account's held is the sum of the
\* amounts of the index entries its client owns whose under_dispute flag is
\* set, also after a chargeback and once the account is locked.
C34_HeldIsDisputedSum ==
    \A c \in DOMAIN accounts :
        accounts[c].held = SumAmounts(transactions, UnderDisputeOf(c))

\* Two deposits of one client were disputed and one of them charged back:
\* the account is locked and still holds the other.
C34_Witness ==
    /\ last.event = "charged_back"
    /\ is_locked(accounts[last.client])
    /\ UnderDisputeOf(last.client) # {}
    /\ accounts[last.client].held > ZERO
    /\ ~transactions[last.tx_id].under_dispute

\* The sum of the amounts of a set of accepted deposits.
RECURSIVE SumDeposits(_)
SumDeposits(ds) ==
    IF ds = {} THEN ZERO
    ELSE LET d == CHOOSE x \in ds : TRUE
         IN  add(d.amount, SumDeposits(ds \ {d}))

\* The sum of a sequence of amounts.
RECURSIVE SumSeq(_)
SumSeq(q) == IF q = <<>> THEN ZERO ELSE add(Head(q), SumSeq(Tail(q)))

\* C35: in every reachable state each account's total is the sum of the
\* amounts of its accepted deposits, minus the sum of the amounts of its
\* accepted withdrawals, minus the amount of its charged-back deposit (if
\* any); and a dispute or resolve record never changes any total.
C35_TotalIsLedger ==
    /\ [](\A c \in DOMAIN accounts :
            accounts[c].total =
              sub(sub(SumDeposits({d \in deposits_applied : d.client = c}),
                      withdrawn[c]),
                  SumSeq(charged_back[c])))
    /\ [][(last'.kind \in {"dispute", "resolve"} /\ row' = row + 1)
            => /\ DOMAIN accounts' = DOMAIN accounts
               /\ \A c \in DOMAIN accounts :
                     accounts'[c].total = accounts[c].total]_vars

\* Two deposits, a withdrawal and the chargeback of one deposit of the same
\* client: nothing is left.
C35_Witness ==
    /\ last.event = "charged_back"
    /\ withdrawn[last.client] > ZERO
    /\ Len(charged_back[last.client]) = 1
    /\ charged_back[last.client][1] > ZERO
    /\ accounts[last.client].total = ZERO
    /\ \A d \in deposits_applied : d.client = last.client /\ d.amount > ZERO

\* C36: every ingested record changes at most the account of the client it
\* names and at most the index entry keyed by its tx id: every other account
\* and every other index entry is there afterwards, unchanged, and no other
\* account or entry appears.
C36_Frame ==
    [][(row' = row + 1)
        => /\ DOMAIN accounts' \subseteq DOMAIN accounts \cup {last'.client}
           /\ \A c \in DOMAIN accounts \ {last'.client} :
                 c \in DOMAIN accounts' /\ accounts'[c] = accounts[c]
           /\ DOMAIN transactions' \subseteq DOMAIN transactions \cup {last'.tx_id}
           /\ \A t \in DOMAIN transactions \ {last'.tx_id} :
                 t \in DOMAIN transactions' /\ transactions'[t] = transactions[t]]_vars

\* A dispute was applied while another client has an account with funds and
\* a deposit of its own in the index.
C36_Witness ==
    /\ last.event = "disputed"
    /\ \E c \in DOMAIN accounts \ {last.client} :
          /\ accounts[c].total > ZERO
          /\ \E t \in DOMAIN transactions \ {last.tx_id} :
                transactions[t].client = c

\* C37: once an account is locked, the under_dispute flag of every index
\* entry owned by its client never changes again: over every step each such
\* entry stays in the index with the flag it had (and the account stays
\* locked), whichever client the record names.
C37_FlagsFrozenAfterLock ==
    [][\A t \in DOMAIN transactions :
          (/\ transactions[t].client \in DOMAIN accounts
           /\ accounts[transactions[t].client].locked)
          => /\ t \in DOMAIN transactions'
             /\ transactions'[t].under_dispute = transactions[t].under_dispute
             /\ transactions'[t].client = transactions[t].client
             /\ accounts'[transactions[t].client].locked]_vars

\* One of two disputed deposits of a client was charged back; a lifecycle
\* record of the other client naming one of the two deposits was dropped, and
\* one deposit is still under dispute, the other no longer.
C37_Witness ==
    /\ last.kind \in Lifecycle
    /\ last.event = "client_mismatch"
    /\ last.tx_id \in DOMAIN transactions
    /\ accounts[transactions[last.tx_id].client].locked
    /\ \E t, u \in DOMAIN transactions :
          /\ transactions[t].client = transactions[last.tx_id].client
          /\ transactions[u].client = transactions[last.tx_id].client
          /\ transactions[t].under_dispute
          /\ ~transactions[u].under_dispute

\* C38: at most one chargeback is ever applied to an account, and an account
\* is locked if and only if exactly one chargeback was applied to it; once
\* one was applied, every further chargeback record of that client is
\* dropped, changing no account and no index entry.
C38_OneChargeback ==
    /\ [](\A c \in Clients :
            /\ Len(charged_back[c]) <= 1
            /\ IF c \in DOMAIN accounts
               THEN accounts[c].locked <=> Len(charged_back[c]) = 1
               ELSE Len(charged_back[c]) = 0)
    /\ [][(/\ last'.kind = "chargeback"
            /\ row' = row + 1
            /\ Len(charged_back[last'.client]) = 1)
           => /\ last'.event = "locked"
              /\ accounts' = accounts
              /\ transactions' = transactions
              /\ charged_back' = charged_back]_vars

\* After the chargeback of one of two disputed deposits of a client, the
\* chargeback of the other was dropped: it is still under dispute and held.
C38_Witness ==
    /\ last.kind = "chargeback"
    /\ last.event = "locked"
    /\ Len(charged_back[last.client]) = 1
    /\ last.tx_id \in DOMAIN transactions
    /\ transactions[last.tx_id].client = last.client
    /\ transactions[last.tx_id].under_dispute
    /\ accounts[last.client].held = transactions[last.tx_id].amount
    /\ charged_back[last.client][1] > ZERO

\* C39 (as claimed): a withdrawal record, whatever parseable amount it
\* carries, the signed ones included, never increases the available or the
\* total of any account, and a deposit record never decreases them (an
\* account the record creates is compared with the fresh account).
C39_Monotone ==
    [][(row' = row + 1)
        => \A c \in DOMAIN accounts' :
              /\ last'.kind = "withdrawal"
                 => /\ accounts'[c].available <= AccountOrFresh(c).available
                    /\ accounts'[c].total <= AccountOrFresh(c).total
              /\ last'.kind = "deposit"
                 => /\ accounts'[c].available >= AccountOrFresh(c).available
                    /\ accounts'[c].total >= AccountOrFresh(c).total]_vars

====
